---- MODULE Spec2Model ----
(***************************************************************************)
(* A model of react-diff-viewer-continued: the line reconciliation of      *)
(* src/src/compute-lines.ts (computeLineInformation) and the fold-block    *)
(* computation of compute-hidden-blocks (computeHiddenBlocks), as they are *)
(* driven by DiffViewer.renderDiff in src/src/index.tsx.                   *)
(*                                                                         *)
(* Strings are sequences of one-character strings, so that splitting a     *)
(* chunk value into lines is computed, not assumed.  Indices into JS       *)
(* arrays keep the code's 0-based numbering; a TLA+ sequence s models the  *)
(* JS array whose element i is s[i + 1].                                   *)
(***************************************************************************)
EXTENDS Integers, Sequences, FiniteSets, TLC

(***************************************************************************)
(* Bounds of the model.                                                    *)
(***************************************************************************)
\* chunks in one diffArray
MaxChunks == 3
\* lines in one diffArray, all chunks together
MaxTotalLines == 4
\* chunks and lines of one diffArray, counted together
MaxSize == 6
\* linesOffset ranges over 0..MaxOffset
MaxOffset == 1
\* tokens in one alwaysShowLines list
MaxShowLines == 1
\* the line numbers alwaysShowLines tokens name range over 1..MaxTokenLine
MaxTokenLine == 2
\* rows of the unchanged text folded by renderDiff in SpecBlocks
MaxRows == 6
\* extraLinesSurroundingDiff ranges over -1..MaxExtraLines, or is absent
MaxExtraLines == 2
\* characters in one line of the pairs compared word by word in SpecWords
MaxLineLen == 3
\* chunks, and lines in all chunks, of one diffArray in SpecRender
MaxRenderChunks == 2
MaxRenderLines == 2
\* rows of the texts shown in SpecView, and the context widths 0..MaxViewExtra
MaxViewRows == 5
MaxViewExtra == 1

(***************************************************************************)
(* enum DiffType                                                           *)
(***************************************************************************)
DEFAULT == 0
ADDED == 1
REMOVED == 2
CHANGED == 3

\* the value of a field that was never assigned (lineNumber, type)
undefined == -1

NL == "\n"
\* the lines chunk values are made of: empty, one space, one letter
SampleLines == {<<>>, <<" ">>, <<"a">>}

(***************************************************************************)
(* DiffInformation.value: absent, a string, or an array of fragments.      *)
(***************************************************************************)
NoValue == [kind |-> "undefined", str |-> <<>>, arr |-> <<>>]
StrValue(s) == [kind |-> "string", str |-> s, arr |-> <<>>]
ArrValue(a) == [kind |-> "array", str |-> <<>>, arr |-> a]
\* const left: DiffInformation = {}
EmptyInfo == [lineNumber |-> undefined, type |-> undefined, value |-> NoValue]

\* Array.prototype.includes
Includes(s, x) == \E i \in 1..Len(s) : s[i] = x

(***************************************************************************)
(* constructLines: "" has no lines; otherwise one trailing newline is      *)
(* dropped and the rest is split at every newline.                         *)
(***************************************************************************)
RECURSIVE Split(_, _)
\* value.split("\n"), with cur the piece collected so far
Split(value, cur) ==
  IF value = <<>> THEN <<cur>>
  ELSE IF Head(value) = NL THEN <<cur>> \o Split(Tail(value), <<>>)
  ELSE Split(Tail(value), Append(cur, Head(value)))

\* value.replace(/\n$/, "")
StripTrailingNL(value) ==
  IF value # <<>> /\ value[Len(value)] = NL
  THEN SubSeq(value, 1, Len(value) - 1)
  ELSE value

constructLines(value) ==
  IF value = <<>> THEN <<>> ELSE Split(StripTrailingNL(value), <<>>)

(***************************************************************************)
(* enum DiffMethod: the names under which jsDiff holds a diff function.    *)
(***************************************************************************)
DiffMethod ==
  {"diffChars", "diffWords", "diffWordsWithSpace", "diffLines",
   "diffTrimmedLines", "diffSentences", "diffCss", "diffJson"}

(***************************************************************************)
(* The diff library, seen from computeDiff: a function from two strings to *)
(* a sequence of change objects.  The model keeps the longest common       *)
(* prefix and suffix and reports what lies between them as removed, then   *)
(* added.                                                                  *)
(***************************************************************************)
RECURSIVE CommonPrefixLen(_, _)
CommonPrefixLen(a, b) ==
  IF a = <<>> \/ b = <<>> \/ Head(a) # Head(b) THEN 0
  ELSE 1 + CommonPrefixLen(Tail(a), Tail(b))

RECURSIVE Reverse(_)
Reverse(s) == IF s = <<>> THEN <<>> ELSE Append(Reverse(Tail(s)), Head(s))

Change(added, removed, value) ==
  [added |-> added, removed |-> removed, value |-> value]

\* the change objects for a common prefix pre, a removed part del, an added
\* part ins and a common suffix suf; empty parts are left out
Changes(pre, del, ins, suf) ==
  (IF pre = <<>> THEN <<>> ELSE <<Change(FALSE, FALSE, pre)>>)
  \o (IF del = <<>> THEN <<>> ELSE <<Change(FALSE, TRUE, del)>>)
  \o (IF ins = <<>> THEN <<>> ELSE <<Change(TRUE, FALSE, ins)>>)
  \o (IF suf = <<>> THEN <<>> ELSE <<Change(FALSE, FALSE, suf)>>)

\* o1 and n1 are what follows the common prefix of length p, q is the length
\* of their common suffix
ChangesAround(oldStr, p, o1, n1, q) ==
  Changes(SubSeq(oldStr, 1, p), SubSeq(o1, 1, Len(o1) - q),
          SubSeq(n1, 1, Len(n1) - q), SubSeq(o1, Len(o1) - q + 1, Len(o1)))

ChangesAfterPrefix(oldStr, p, o1, n1) ==
  ChangesAround(oldStr, p, o1, n1, CommonPrefixLen(Reverse(o1), Reverse(n1)))

ChangesWithPrefix(oldStr, newStr, p) ==
  ChangesAfterPrefix(oldStr, p, SubSeq(oldStr, p + 1, Len(oldStr)),
                     SubSeq(newStr, p + 1, Len(newStr)))

jsDiffChange(oldStr, newStr) ==
  ChangesWithPrefix(oldStr, newStr, CommonPrefixLen(oldStr, newStr))

RECURSIVE Concat(_)
Concat(ss) == IF ss = <<>> THEN <<>> ELSE Head(ss) \o Concat(Tail(ss))

\* The library compares token by token, and the methods differ in what a
\* token is.  On lines of letters and spaces the model tells three kinds
\* apart: characters, words and runs of spaces, and the whole line.  A
\* function the caller supplies is taken to compare by character.
CharMethods == {"diffChars", "function"}
WordMethods == {"diffWords", "diffWordsWithSpace", "diffCss"}

\* the last run grows by the character ch, or a new run starts
PushChar(runs, ch) ==
  IF runs # <<>> /\ ((runs[Len(runs)][1] = " ") <=> (ch = " "))
  THEN [runs EXCEPT ![Len(runs)] = Append(@, ch)]
  ELSE Append(runs, <<ch>>)

RECURSIVE WordRuns(_, _)
\* str cut into words and runs of spaces, after the runs found so far
WordRuns(str, runs) ==
  IF str = <<>> THEN runs ELSE WordRuns(Tail(str), PushChar(runs, Head(str)))

Tokenize(compareMethod, str) ==
  IF compareMethod \in CharMethods THEN [i \in 1..Len(str) |-> <<str[i]>>]
  ELSE IF compareMethod \in WordMethods THEN WordRuns(str, <<>>)
  ELSE IF str = <<>> THEN <<>> ELSE <<str>>

\* the value of a change object is the text of its tokens
JoinTokens(changes) ==
  [i \in 1..Len(changes) |->
     Change(changes[i].added, changes[i].removed, Concat(changes[i].value))]

\* jsDiff[compareMethod](oldStr, newStr)
jsDiff(compareMethod, oldStr, newStr) ==
  JoinTokens(jsDiffChange(Tokenize(compareMethod, oldStr),
                          Tokenize(compareMethod, newStr)))

(***************************************************************************)
(* computeDiff: the fragments of one modified line pair.  A compareMethod  *)
(* string that names no function of jsDiff makes the call throw.           *)
(***************************************************************************)
Fragment(type, value) == [type |-> type, value |-> value]

\* the callback of diffArray.forEach in computeDiff, acc = computedDiff
PushFragments(acc, c) ==
  [acc EXCEPT
     !.right = IF c.added THEN Append(@, Fragment(ADDED, c.value))
               ELSE IF ~c.removed THEN Append(@, Fragment(DEFAULT, c.value))
               ELSE @,
     !.left = IF c.removed THEN Append(@, Fragment(REMOVED, c.value))
              ELSE IF ~c.added THEN Append(@, Fragment(DEFAULT, c.value))
              ELSE @]

RECURSIVE computeDiffEach(_, _)
computeDiffEach(changes, acc) ==
  IF changes = <<>> THEN acc
  ELSE computeDiffEach(Tail(changes), PushFragments(acc, Head(changes)))

computeDiff(oldValue, newValue, compareMethod) ==
  IF compareMethod \notin DiffMethod \cup {"function"}
  THEN [threw |-> TRUE, left |-> <<>>, right |-> <<>>]
  ELSE computeDiffEach(jsDiff(compareMethod, oldValue, newValue),
                       [threw |-> FALSE, left |-> <<>>, right |-> <<>>])

(***************************************************************************)
(* computeLineInformation.  env holds the call's arguments and diffArray;  *)
(* st holds the variables the closure getLineInformation shares:           *)
(* leftLineNumber, rightLineNumber, counter, diffLines, ignoreDiffIndexes, *)
(* and threw, set when the call has thrown.                                *)
(***************************************************************************)
\* `${diffIndex}-${lineIndex}`
IgnoreKey(diffIndex, lineIndex) == <<diffIndex, lineIndex>>
\* `L-${n}` and `R-${n}`
Token(side, n) == <<side, n>>

\* if (nextDiffLines): the line exists and is not the empty string
Truthy(lines, lineIndex) ==
  lineIndex < Len(lines) /\ lines[lineIndex + 1] # <<>>

\* line || " "
OrSpace(line) == IF line = <<>> THEN <<" ">> ELSE line

\* left.value === rightValue
SameValue(leftValue, rightValue) == leftValue = rightValue

\* RegisterChange that puts the row index at the front (unshift for push)
RegisterChangeAtFront(diffLines, counter, countAsChange, evaluateOnlyFirstLine) ==
  IF countAsChange /\ ~evaluateOnlyFirstLine /\ ~Includes(diffLines, counter)
  THEN <<counter>> \o diffLines
  ELSE diffLines

\* if (countAsChange && !evaluateOnlyFirstLine) { if (!includes) push }
RegisterChange(diffLines, counter, countAsChange, evaluateOnlyFirstLine) ==
  IF countAsChange /\ ~evaluateOnlyFirstLine /\ ~Includes(diffLines, counter)
  THEN Append(diffLines, counter)
  ELSE diffLines

\* the showLines test: a || (b && c)
ForcedByShowLines(showLines, left, right, diffLines, counter) ==
  \/ Includes(showLines, Token("L", left.lineNumber))
  \/ /\ Includes(showLines, Token("R", right.lineNumber))
     /\ ~Includes(diffLines, counter)

\* what a call of getLineInformation has made so far: the shared variables
\* and the rows that survive the filter
Ret(st, out) == [st |-> st, out |-> out]

\* the first test of the callback: the line was merged into an earlier row,
\* or only the first line is wanted
Skipped(st, lineIndex, diffIndex, evaluateOnlyFirstLine) ==
  \/ Includes(st.ignoreDiffIndexes, IgnoreKey(diffIndex, lineIndex))
  \/ (evaluateOnlyFirstLine /\ lineIndex # 0)

\* what the branch for the line's kind leaves: the shared variables, both
\* sides and countAsChange
Branch(st, left, right, countAsChange) ==
  [st |-> st, left |-> left, right |-> right, countAsChange |-> countAsChange]

Info(lineNumber, type, value) ==
  [lineNumber |-> lineNumber, type |-> type, value |-> value]

\* the showLines test and counter, with d1 the diffLines after the change
\* was registered
FinishWith(env, b, d1, evaluateOnlyFirstLine) ==
  [b.st EXCEPT
     !.diffLines = IF ForcedByShowLines(env.showLines, b.left, b.right, d1,
                                        b.st.counter)
                   THEN Append(d1, b.st.counter)
                   ELSE d1,
     !.counter = IF evaluateOnlyFirstLine THEN @ ELSE @ + 1]

\* the callback from the end of the branch b of the line's kind on:
\* diffLines, the showLines test, counter, and the row
FinishLine(env, b, addedOrRemoved, evaluateOnlyFirstLine) ==
  IF b.st.threw THEN Ret(b.st, <<>>)
  ELSE Ret(FinishWith(env, b,
                      IF addedOrRemoved
                      THEN RegisterChange(b.st.diffLines, b.st.counter,
                                          b.countAsChange, evaluateOnlyFirstLine)
                      ELSE b.st.diffLines,
                      evaluateOnlyFirstLine),
           <<[right |-> b.right, left |-> b.left]>>)

\* AddedLine without rightLineNumber += 1
AddedLineStale(st, line) ==
  Branch(st, EmptyInfo, Info(st.rightLineNumber + 1, ADDED, StrValue(line)), TRUE)

\* AddedLine with countAsChange false
AddedLineNotCounted(st, line) ==
  Branch([st EXCEPT !.rightLineNumber = @ + 1], EmptyInfo,
         Info(st.rightLineNumber + 1, ADDED, StrValue(line)), FALSE)

\* the else branch of if (removed): an added line
AddedLine(st, line) ==
  Branch([st EXCEPT !.rightLineNumber = @ + 1], EmptyInfo,
         Info(st.rightLineNumber + 1, ADDED, StrValue(line)), TRUE)

\* the else branch of if (added || removed): an unchanged line
UnchangedLine(st, line) ==
  Branch([st EXCEPT !.leftLineNumber = @ + 1, !.rightLineNumber = @ + 1],
         Info(st.leftLineNumber + 1, DEFAULT, StrValue(line)),
         Info(st.rightLineNumber + 1, DEFAULT, StrValue(line)), FALSE)

\* r follows acc: its rows are appended
Emit(acc, r) == Ret(r.st, acc.out \o r.out)

\* the callback of lines.map in the nested call of the lookahead,
\* getLineInformation(nextDiffLines, diffIndex, true, false, true): added is
\* true and removed false, so it takes the added branch and calls no further
NestedMapLine(env, st, line, lineIndex, diffIndex) ==
  IF Skipped(st, lineIndex, diffIndex, TRUE) THEN Ret(st, <<>>)
  ELSE FinishLine(env, AddedLine(st, line), TRUE, TRUE)

RECURSIVE NestedMapLines(_, _, _, _, _)
NestedMapLines(env, acc, lines, lineIndex, diffIndex) ==
  IF lineIndex >= Len(lines) THEN acc
  ELSE NestedMapLines(env,
                      Emit(acc, NestedMapLine(env, acc.st, lines[lineIndex + 1],
                                              lineIndex, diffIndex)),
                      lines, lineIndex + 1, diffIndex)

NestedGetLineInformation(env, st, value, diffIndex) ==
  NestedMapLines(env, Ret(st, <<>>), constructLines(value), 0, diffIndex)

\* the lines of diffArray[diffIndex + 1] if that chunk is there and is
\* added, none otherwise
NextDiffLines(env, diffIndex) ==
  IF diffIndex + 1 < Len(env.diffArray) /\ env.diffArray[diffIndex + 2].added
  THEN constructLines(env.diffArray[diffIndex + 2].value)
  ELSE <<>>

\* WordDiffed with right.type taken from the first fragment
WordDiffedTypeOfFragment(st2, left, rightInfo, computedDiff) ==
  Branch([st2 EXCEPT !.threw = computedDiff.threw],
         [left EXCEPT !.value = ArrValue(computedDiff.left)],
         Info(rightInfo.lineNumber,
              IF computedDiff.right = <<>> THEN rightInfo.type
              ELSE computedDiff.right[1].type,
              ArrValue(computedDiff.right)),
         TRUE)

\* the modification pair whose two values differ, word diff enabled
WordDiffed(st2, left, rightInfo, computedDiff) ==
  Branch([st2 EXCEPT !.threw = computedDiff.threw],
         [left EXCEPT !.value = ArrValue(computedDiff.left)],
         Info(rightInfo.lineNumber, rightInfo.type, ArrValue(computedDiff.right)),
         TRUE)

\* Paired without left.type = 0 for two equal values
PairedKeepsLeftType(env, st2, line, left, rightInfo) ==
  IF SameValue(left.value, rightInfo.value)
  THEN Branch(st2, left, Info(rightInfo.lineNumber, 0, rightInfo.value), FALSE)
  ELSE IF env.disableWordDiff
  THEN Branch(st2, left,
              Info(rightInfo.lineNumber, rightInfo.type, rightInfo.value), TRUE)
  ELSE WordDiffed(st2, left, rightInfo,
                  computeDiff(line, rightInfo.value.str, env.lineCompareMethod))

\* Paired without the test of disableWordDiff
PairedWordDiffAlways(env, st2, line, left, rightInfo) ==
  IF SameValue(left.value, rightInfo.value)
  THEN Branch(st2, [left EXCEPT !.type = 0],
              Info(rightInfo.lineNumber, 0, rightInfo.value), FALSE)
  ELSE WordDiffed(st2, left, rightInfo,
                  computeDiff(line, rightInfo.value.str, env.lineCompareMethod))

\* the modification pair: left is the removed side, rightInfo the right
\* side the nested call returned, st2 the shared variables once the added
\* line is on the ignore list
Paired(env, st2, line, left, rightInfo) ==
  IF SameValue(left.value, rightInfo.value)
  THEN Branch(st2, [left EXCEPT !.type = 0],
              Info(rightInfo.lineNumber, 0, rightInfo.value), FALSE)
  ELSE IF env.disableWordDiff
  THEN Branch(st2, left,
              Info(rightInfo.lineNumber, rightInfo.type, rightInfo.value), TRUE)
  ELSE WordDiffed(st2, left, rightInfo,
                  computeDiff(line, rightInfo.value.str, env.lineCompareMethod))

\* AfterLookahead without ignoreDiffIndexes.push
AfterLookaheadNoIgnore(env, line, lineIndex, diffIndex, left, rec) ==
  IF rec.out = <<>>
  THEN Branch([rec.st EXCEPT !.threw = TRUE], left, EmptyInfo, TRUE)
  ELSE Paired(env, rec.st, line, left, rec.out[1].right)

\* after the nested call returned nextDiffLineInfo = rec.out
AfterLookahead(env, line, lineIndex, diffIndex, left, rec) ==
  IF rec.out = <<>>
  THEN \* nextDiffLineInfo[0] is undefined: reading .right throws
       Branch([rec.st EXCEPT !.threw = TRUE], left, EmptyInfo, TRUE)
  ELSE Paired(env,
              [rec.st EXCEPT !.ignoreDiffIndexes =
                 Append(@, IgnoreKey(diffIndex + 1, lineIndex))],
              line, left, rec.out[1].right)

\* Lookahead that returns a fresh left side when no added line faces the
\* removed one
LookaheadLosesLeft(env, st1, line, lineIndex, diffIndex, left, nextLines) ==
  IF ~Truthy(nextLines, lineIndex)
  THEN Branch(st1, EmptyInfo, EmptyInfo, TRUE)
  ELSE AfterLookahead(env, line, lineIndex, diffIndex, left,
                      NestedGetLineInformation(env, st1, nextLines[lineIndex + 1],
                                               diffIndex))

\* the removed branch once the left side is set
Lookahead(env, st1, line, lineIndex, diffIndex, left, nextLines) ==
  IF ~Truthy(nextLines, lineIndex)
  THEN Branch(st1, left, EmptyInfo, TRUE)
  ELSE AfterLookahead(env, line, lineIndex, diffIndex, left,
                      NestedGetLineInformation(env, st1, nextLines[lineIndex + 1],
                                               diffIndex))

\* RemovedLine without leftLineNumber += 1
RemovedLineStale(env, st, line, lineIndex, diffIndex) ==
  Lookahead(env, st, line, lineIndex, diffIndex,
            Info(st.leftLineNumber + 1, REMOVED, StrValue(OrSpace(line))),
            NextDiffLines(env, diffIndex))

\* the branch if (removed)
RemovedLine(env, st, line, lineIndex, diffIndex) ==
  Lookahead(env, [st EXCEPT !.leftLineNumber = @ + 1], line, lineIndex, diffIndex,
            Info(st.leftLineNumber + 1, REMOVED, StrValue(OrSpace(line))),
            NextDiffLines(env, diffIndex))

\* if (added || removed) { if (removed) ... else ... } else ...
LineBranch(env, st, line, lineIndex, diffIndex, added, removed) ==
  IF added \/ removed
  THEN IF removed THEN RemovedLine(env, st, line, lineIndex, diffIndex)
                  ELSE AddedLine(st, line)
  ELSE UnchangedLine(st, line)

\* the callback of lines.map in a call made by the loop over the chunks
MapLine(env, st, line, lineIndex, diffIndex, added, removed, evaluateOnlyFirstLine) ==
  IF st.threw \/ Skipped(st, lineIndex, diffIndex, evaluateOnlyFirstLine)
  THEN Ret(st, <<>>)
  ELSE FinishLine(env,
                  LineBranch(env, st, line, lineIndex, diffIndex, added, removed),
                  added \/ removed, evaluateOnlyFirstLine)

RECURSIVE MapLines(_, _, _, _, _, _, _, _)
\* lines.map(...).filter(item => item !== null), from line lineIndex on
MapLines(env, acc, lines, lineIndex, diffIndex, added, removed, evaluateOnlyFirstLine) ==
  IF lineIndex >= Len(lines) THEN acc
  ELSE MapLines(env,
                Emit(acc, MapLine(env, acc.st, lines[lineIndex + 1], lineIndex,
                                  diffIndex, added, removed, evaluateOnlyFirstLine)),
                lines, lineIndex + 1, diffIndex, added, removed,
                evaluateOnlyFirstLine)

getLineInformation(env, st, value, diffIndex, added, removed, evaluateOnlyFirstLine) ==
  MapLines(env, Ret(st, <<>>), constructLines(value), 0, diffIndex, added,
           removed, evaluateOnlyFirstLine)

\* lineInformation = [...lineInformation, ...rows], kept chunk by chunk
PushChunkRows(chunkRows, r) ==
  [st |-> r.st, chunkRows |-> Append(chunkRows, r.out)]

\* the callback of diffArray.forEach
ChunkStep(env, acc, index, c) ==
  PushChunkRows(acc.chunkRows,
                getLineInformation(env, acc.st, c.value, index, c.added,
                                   c.removed, FALSE))

RECURSIVE ForEachChunk(_, _, _)
\* diffArray.forEach(...): acc.chunkRows[i] is what the call for chunk i - 1
\* returned, and lineInformation is their concatenation
ForEachChunk(env, acc, index) ==
  IF index >= Len(env.diffArray) THEN acc
  ELSE ForEachChunk(env, ChunkStep(env, acc, index, env.diffArray[index + 1]),
                    index + 1)

\* InitialClosure with the right counter started at 0
InitialClosureLeftOnly(linesOffset) ==
  [rightLineNumber |-> 0, leftLineNumber |-> linesOffset,
   counter |-> 0, diffLines |-> <<>>, ignoreDiffIndexes |-> <<>>,
   threw |-> FALSE]

\* the state of the closure when computeLineInformation starts its loop
InitialClosure(linesOffset) ==
  [rightLineNumber |-> linesOffset, leftLineNumber |-> linesOffset,
   counter |-> 0, diffLines |-> <<>>, ignoreDiffIndexes |-> <<>>,
   threw |-> FALSE]

\* what computeLineInformation returns after its loop ended as r; a call
\* that throws returns nothing
Returned(r) ==
  IF r.st.threw
  THEN [threw |-> TRUE, lineInformation |-> <<>>, diffLines |-> <<>>,
        chunkRows |-> <<>>, closure |-> r.st]
  ELSE [threw |-> FALSE, lineInformation |-> Concat(r.chunkRows),
        diffLines |-> r.st.diffLines, chunkRows |-> r.chunkRows,
        closure |-> r.st]

\* computeLineInformation, from the chunks the line diff returned
computeLineInformation(diffArray, disableWordDiff, lineCompareMethod, linesOffset, showLines) ==
  Returned(ForEachChunk([diffArray |-> diffArray,
                         disableWordDiff |-> disableWordDiff,
                         lineCompareMethod |-> lineCompareMethod,
                         showLines |-> showLines],
                        [st |-> InitialClosure(linesOffset), chunkRows |-> <<>>],
                        0))

(***************************************************************************)
(* computeHiddenBlocks.  acc holds newBlockIndex, currentBlock, lineBlocks *)
(* and blocks.  currentBlock is a reference to an element of blocks: the   *)
(* model keeps the element's position, or undefined.  lineBlocks is the    *)
(* function from the keys assigned so far to their values.                 *)
(***************************************************************************)
Block(index, startLine, endLine, lines) ==
  [index |-> index, startLine |-> startLine, endLine |-> endLine, lines |-> lines]

\* IsDiffLine with diffLine <= lineIndex for its second test
IsDiffLineNoneAhead(dl, lineIndex, extra) ==
  \E i \in 1..Len(dl) :
    dl[i] >= lineIndex - extra /\ dl[i] <= lineIndex

\* diffLines.some(diffLine => diffLine >= lineIndex - extraLines &&
\*                            diffLine <= lineIndex + extraLines)
IsDiffLine(dl, lineIndex, extra) ==
  \E i \in 1..Len(dl) :
    dl[i] >= lineIndex - extra /\ dl[i] <= lineIndex + extra

\* BlockBegins without newBlockIndex++
BlockBeginsSameIndex(acc, lineIndex) ==
  [newBlockIndex |-> acc.newBlockIndex,
   currentBlock |-> Len(acc.blocks),
   blocks |-> Append(acc.blocks,
                     Block(acc.newBlockIndex, lineIndex, lineIndex, 1)),
   lineBlocks |-> (lineIndex :> acc.newBlockIndex) @@ acc.lineBlocks]

\* block begins
BlockBegins(acc, lineIndex) ==
  LET b == Block(acc.newBlockIndex, lineIndex, lineIndex, 1)
  IN  [newBlockIndex |-> acc.newBlockIndex + 1,
       currentBlock |-> Len(acc.blocks),
       blocks |-> Append(acc.blocks, b),
       lineBlocks |-> (lineIndex :> b.index) @@ acc.lineBlocks]

\* BlockContinues without lineBlocks[lineIndex] = currentBlock.index
BlockContinuesNoEntry(acc, lineIndex) ==
  [acc EXCEPT !.blocks[acc.currentBlock + 1].endLine = lineIndex,
              !.blocks[acc.currentBlock + 1].lines = @ + 1]

\* block continues
BlockContinues(acc, lineIndex) ==
  LET p == acc.currentBlock + 1
  IN  [acc EXCEPT !.blocks[p].endLine = lineIndex,
                  !.blocks[p].lines = @ + 1,
                  !.lineBlocks = (lineIndex :> acc.blocks[p].index) @@ @]

\* the last branch without currentBlock = undefined
BlockEndsStaysOpen(acc) == acc

\* not a block anymore
BlockEnds(acc) == [acc EXCEPT !.currentBlock = undefined]

\* the callback of lineInformation.forEach
HiddenBlocksStep(acc, dl, lineIndex, extra) ==
  LET isDiffLine == IsDiffLine(dl, lineIndex, extra)
  IN  IF ~isDiffLine /\ acc.currentBlock = undefined
      THEN BlockBegins(acc, lineIndex)
      ELSE IF ~isDiffLine /\ acc.currentBlock # undefined
      THEN BlockContinues(acc, lineIndex)
      ELSE BlockEnds(acc)

RECURSIVE HiddenBlocksFrom(_, _, _, _, _)
HiddenBlocksFrom(acc, rows, dl, lineIndex, extra) ==
  IF lineIndex >= Len(rows) THEN acc
  ELSE HiddenBlocksFrom(HiddenBlocksStep(acc, dl, lineIndex, extra),
                        rows, dl, lineIndex + 1, extra)

computeHiddenBlocks(rows, dl, extra) ==
  LET acc == HiddenBlocksFrom([newBlockIndex |-> 0, currentBlock |-> undefined,
                               blocks |-> <<>>, lineBlocks |-> <<>>],
                              rows, dl, 0, extra)
  IN  [lineBlocks |-> acc.lineBlocks, blocks |-> acc.blocks]

(***************************************************************************)
(* renderDiff: the context width it hands to computeHiddenBlocks.  The     *)
(* prop is absent or an integer.                                           *)
(***************************************************************************)
DefaultExtraLines == 3

AbsentProp == [given |-> FALSE, value |-> 0]
GivenProp(v) == [given |-> TRUE, value |-> v]

\* ExtraLinesOf without the test for a negative value
ExtraLinesOfUnclamped(prop) ==
  IF prop.given THEN prop.value ELSE DefaultExtraLines

\* extraLinesSurroundingDiff ?? 3, then < 0 ? 0 : Math.round(...)
ExtraLinesOf(prop) ==
  LET extraLinesSurroundingDiffValue ==
        IF prop.given THEN prop.value ELSE DefaultExtraLines
  IN  IF extraLinesSurroundingDiffValue < 0 THEN 0
      ELSE extraLinesSurroundingDiffValue

(***************************************************************************)
(* The inputs of the model: the chunk sequences the line diff can hand to  *)
(* computeLineInformation, and the other arguments of the call.            *)
(***************************************************************************)
RECURSIVE JoinLines(_)
\* every line followed by its newline, as the line diff tokenizes a text
JoinLines(ls) ==
  IF ls = <<>> THEN <<>> ELSE Head(ls) \o <<NL>> \o JoinLines(Tail(ls))

ChunkKinds == {<<FALSE, FALSE>>, <<TRUE, FALSE>>, <<FALSE, TRUE>>}

ChunksWithLines(k) ==
  {Change(kind[1], kind[2], JoinLines(ls)) :
     kind \in ChunkKinds, ls \in [1..k -> SampleLines]}

Min(a, b) == IF a < b THEN a ELSE b

RECURSIVE DiffArraysUpTo(_, _, _)
\* the sequences of at most m chunks holding at most n lines together, with
\* chunks and lines together at most size
DiffArraysUpTo(m, n, size) ==
  {<<>>} \cup
  (IF m = 0 THEN {}
   ELSE UNION {{<<c>> \o rest : c \in ChunksWithLines(k),
                                rest \in DiffArraysUpTo(m - 1, n - k, size - k - 1)} :
               k \in 1..Min(n, size - 1)})

\* the last chunk ends a text that has no final newline
WithoutFinalNewline(d) ==
  [d EXCEPT ![Len(d)].value = StripTrailingNL(@)]

\* every sequence of base, with and without the final newline
WithBothEndings(base) ==
  base \cup {WithoutFinalNewline(d) : d \in base \ {<<>>}}

DiffArrays == WithBothEndings(DiffArraysUpTo(MaxChunks, MaxTotalLines, MaxSize))

ShowTokens == {Token(side, n) : side \in {"L", "R"}, n \in 1..MaxTokenLine}

ShowLinesLists == UNION {[1..k -> ShowTokens] : k \in 0..MaxShowLines}

\* a text of n lines that is compared with itself
UnchangedText(n) ==
  IF n = 0 THEN <<>>
  ELSE <<Change(FALSE, FALSE, JoinLines([i \in 1..n |-> <<"a">>]))>>

RECURSIVE LeftTokens(_, _)
\* the tokens L-(r + 1) of the rows r of D that are at least from, ascending
LeftTokens(D, from) ==
  IF \A r \in D : r < from THEN <<>>
  ELSE IF from \in D THEN <<Token("L", from + 1)>> \o LeftTokens(D, from + 1)
  ELSE LeftTokens(D, from + 1)

ExtraLinesProps == {AbsentProp} \cup {GivenProp(v) : v \in -1..MaxExtraLines}

\* the lines of letters and spaces of at most n characters
LinesUpTo(n) == UNION {[1..k -> {"a", " "}] : k \in 0..n}

\* a removed chunk of the lines ls followed by an added chunk of the lines ms
Modification(ls, ms) ==
  <<Change(FALSE, TRUE, JoinLines(ls)), Change(TRUE, FALSE, JoinLines(ms))>>

\* one line replaced by another; the removed or the added chunk may hold a
\* second line, which no line of the other chunk faces
Modifications ==
  {Modification(<<l>>, <<m>>) : l \in LinesUpTo(MaxLineLen), m \in LinesUpTo(MaxLineLen)}
  \cup {Modification(<<l, x>>, <<m>>) :
          l \in LinesUpTo(MaxLineLen), m \in LinesUpTo(MaxLineLen), x \in SampleLines}
  \cup {Modification(<<l>>, <<m, x>>) :
          l \in LinesUpTo(MaxLineLen), m \in LinesUpTo(MaxLineLen), x \in SampleLines}

\* compareMethod: a member of DiffMethod, a function of the caller, or a
\* string that names no method of the library
CompareMethods == DiffMethod \cup {"function", "diffNothing"}

\* typeof oldValue and typeof newValue
TypesOfValues == [oldValue : {"string", "object"}, newValue : {"string", "object"}]
BothStrings == [oldValue |-> "string", newValue |-> "string"]

RenderDiffArrays ==
  WithBothEndings(DiffArraysUpTo(MaxRenderChunks, MaxRenderLines,
                                 MaxRenderChunks + MaxRenderLines))

(***************************************************************************)
(* DiffViewer: what renderDiff makes of each row, and the handlers that    *)
(* change this.state.expandedBlocks.                                       *)
(***************************************************************************)
\* line.left?.lineNumber ?? 0
OrZero(n) == IF n = undefined THEN 0 ELSE n

\* an element of diffNodes: null, the row as renderSplitView or
\* renderInlineView shows it, or what renderSkippedLineIndicator was given
NullNode ==
  [kind |-> "null", lineIndex |-> undefined, num |-> undefined,
   blockNumber |-> undefined, leftBlockLineNumber |-> undefined,
   rightBlockLineNumber |-> undefined]
RowNode(lineIndex) == [NullNode EXCEPT !.kind = "row", !.lineIndex = lineIndex]
FoldNode(num, blockNumber, leftBlockLineNumber, rightBlockLineNumber) ==
  [NullNode EXCEPT !.kind = "fold", !.num = num, !.blockNumber = blockNumber,
                   !.leftBlockLineNumber = leftBlockLineNumber,
                   !.rightBlockLineNumber = rightBlockLineNumber]

\* NodeInBlock with the indicator at the first row of the block
NodeInBlockAtStart(line, lineIndex, blockIndex, block, expanded) ==
  IF ~Includes(expanded, blockIndex) /\ block.startLine = lineIndex
  THEN FoldNode(block.lines, blockIndex, OrZero(line.left.lineNumber),
                OrZero(line.right.lineNumber))
  ELSE IF ~Includes(expanded, blockIndex) THEN NullNode
  ELSE RowNode(lineIndex)

\* the row of the block block, once blockIndex !== undefined
NodeInBlock(line, lineIndex, blockIndex, block, expanded) ==
  IF ~Includes(expanded, blockIndex) /\ block.endLine = lineIndex
  THEN FoldNode(block.lines, blockIndex, OrZero(line.left.lineNumber),
                OrZero(line.right.lineNumber))
  ELSE IF ~Includes(expanded, blockIndex) THEN NullNode
  ELSE RowNode(lineIndex)

\* the callback of lineInformation.map in renderDiff
DiffNode(line, lineIndex, lb, bs, expanded, showOnly) ==
  IF showOnly /\ lineIndex \in DOMAIN lb
  THEN NodeInBlock(line, lineIndex, lb[lineIndex], bs[lb[lineIndex] + 1], expanded)
  ELSE RowNode(lineIndex)

DiffNodes(rows, lb, bs, expanded, showOnly) ==
  [r \in 1..Len(rows) |-> DiffNode(rows[r], r - 1, lb, bs, expanded, showOnly)]

\* this.state.expandedBlocks.length === nodes.blocks.length
AllExpanded(expanded, bs) == Len(expanded) = Len(bs)

\* nodes.blocks.map((b) => b.index)
BlockIndexes(bs) == [k \in 1..Len(bs) |-> bs[k].index]

\* a handler and what it returned (FALSE for a handler that returns nothing)
Called(name, returned) == [name |-> name, returned |-> returned]

\* the unchanged texts of at most MaxViewRows lines and the context widths
\* DiffViewer is shown with in SpecView
ViewRows == 0..MaxViewRows
ViewExtraLinesProps == {GivenProp(v) : v \in 0..MaxViewExtra}

VARIABLES
  pc,                 \* "start", "lines" once computeLineInformation returned,
                      \* "blocks" once computeHiddenBlocks returned
  valueTypes,         \* typeof oldValue, typeof newValue
  diffArray,          \* the chunks of the call
  disableWordDiff,    \* arguments of the call
  lineCompareMethod,
  linesOffset,
  showLines,
  threw,              \* the call threw
  lineInformation,    \* the rows returned
  diffLines,          \* the row indices returned
  chunkRows,          \* per chunk, the rows its getLineInformation call returned
  closure,            \* the closure variables when the call ended
  extraLinesSurroundingDiff,   \* the prop of DiffViewer
  extraLines,         \* what renderDiff made of it
  blocks,             \* returned by computeHiddenBlocks
  lineBlocks,
  showDiffOnly,       \* the prop of DiffViewer
  expandedBlocks,     \* this.state.expandedBlocks
  diffNodes,          \* what the map of renderDiff made of each row
  allExpanded,        \* as render computed it for the expand-all button
  lastCall            \* the handler that ran last and what it returned

lineVars == <<valueTypes, diffArray, disableWordDiff, lineCompareMethod, linesOffset,
              showLines>>
resultVars == <<threw, lineInformation, diffLines, chunkRows, closure>>
blockVars == <<extraLines, blocks, lineBlocks>>
viewVars == <<showDiffOnly, expandedBlocks, diffNodes, allExpanded, lastCall>>
vars == <<pc, lineVars, resultVars, extraLinesSurroundingDiff, blockVars, viewVars>>

\* nothing computed yet
NoResult ==
  /\ pc = "start"
  /\ threw = FALSE
  /\ lineInformation = <<>>
  /\ diffLines = <<>>
  /\ chunkRows = <<>>
  /\ closure = InitialClosure(0)
  /\ extraLines = undefined
  /\ blocks = <<>>
  /\ lineBlocks = <<>>
  /\ expandedBlocks = <<>>
  /\ diffNodes = <<>>
  /\ allExpanded = FALSE
  /\ lastCall = Called("constructor", FALSE)

Init ==
  /\ valueTypes = BothStrings
  /\ diffArray \in DiffArrays
  /\ disableWordDiff \in BOOLEAN
  /\ lineCompareMethod = "diffChars"
  /\ linesOffset \in 0..MaxOffset
  /\ showLines \in ShowLinesLists
  /\ extraLinesSurroundingDiff = AbsentProp
  /\ showDiffOnly = TRUE
  /\ NoResult

\* one call of computeLineInformation
CallComputeLineInformation ==
  /\ pc = "start"
  /\ \E r \in {computeLineInformation(diffArray, disableWordDiff,
                                      lineCompareMethod, linesOffset, showLines)} :
         /\ threw' = r.threw
         /\ lineInformation' = r.lineInformation
         /\ diffLines' = r.diffLines
         /\ chunkRows' = r.chunkRows
         /\ closure' = r.closure
  /\ pc' = "lines"
  /\ UNCHANGED <<lineVars, extraLinesSurroundingDiff, blockVars, viewVars>>

\* renderDiff goes on: the context width, then computeHiddenBlocks
CallComputeHiddenBlocks ==
  /\ pc = "lines"
  /\ ~threw
  /\ extraLines' = ExtraLinesOf(extraLinesSurroundingDiff)
  /\ \E r \in {computeHiddenBlocks(lineInformation, diffLines,
                                   ExtraLinesOf(extraLinesSurroundingDiff))} :
         /\ blocks' = r.blocks
         /\ lineBlocks' = r.lineBlocks
  /\ pc' = "blocks"
  /\ UNCHANGED <<lineVars, resultVars, extraLinesSurroundingDiff, viewVars>>

Next == CallComputeLineInformation

\* computeLineInformation on every chunk sequence of the bounds
Spec == Init /\ [][Next]_vars

\* renderDiff on a text of up to MaxRows lines compared with itself, any set
\* of its lines named in alwaysShowLines, and every context width
InitBlocks ==
  /\ \E n \in 0..MaxRows : \E D \in SUBSET (0..(n - 1)) :
       /\ diffArray = UnchangedText(n)
       /\ showLines = LeftTokens(D, 0)
  /\ valueTypes = BothStrings
  /\ disableWordDiff = FALSE
  /\ lineCompareMethod = "diffChars"
  /\ linesOffset = 0
  /\ extraLinesSurroundingDiff \in ExtraLinesProps
  /\ showDiffOnly = TRUE
  /\ NoResult

NextBlocks == CallComputeLineInformation \/ CallComputeHiddenBlocks

SpecBlocks == InitBlocks /\ [][NextBlocks]_vars

\* computeLineInformation on two texts that differ in one line, with every
\* compare method
InitWords ==
  /\ valueTypes = BothStrings
  /\ diffArray \in Modifications
  /\ disableWordDiff \in BOOLEAN
  /\ lineCompareMethod \in CompareMethods
  /\ linesOffset = 0
  /\ showLines = <<>>
  /\ extraLinesSurroundingDiff = AbsentProp
  /\ showDiffOnly = TRUE
  /\ NoResult

SpecWords == InitWords /\ [][Next]_vars

\* renderDiff on every chunk sequence of the bounds, with every context
\* width from 0 on
InitFold ==
  /\ valueTypes = BothStrings
  /\ diffArray \in DiffArrays
  /\ disableWordDiff = FALSE
  /\ lineCompareMethod = "diffChars"
  /\ linesOffset = 0
  /\ showLines = <<>>
  /\ extraLinesSurroundingDiff \in {GivenProp(v) : v \in 0..MaxExtraLines}
  /\ showDiffOnly = TRUE
  /\ NoResult

SpecFold == InitFold /\ [][NextBlocks]_vars

\* render with the props d and sl and the state eb: renderDiff calls
\* computeLineInformation and computeHiddenBlocks and maps the rows, and
\* render computes allExpanded
RenderWith(d, sl, eb) ==
  /\ \E r \in {computeLineInformation(d, disableWordDiff, lineCompareMethod,
                                      linesOffset, sl)} :
       \E h \in {computeHiddenBlocks(r.lineInformation, r.diffLines,
                                     ExtraLinesOf(extraLinesSurroundingDiff))} :
         /\ threw' = r.threw
         /\ lineInformation' = r.lineInformation
         /\ diffLines' = r.diffLines
         /\ chunkRows' = r.chunkRows
         /\ closure' = r.closure
         /\ blocks' = h.blocks
         /\ lineBlocks' = h.lineBlocks
         /\ diffNodes' = DiffNodes(r.lineInformation, h.lineBlocks, h.blocks, eb,
                                   showDiffOnly)
         /\ allExpanded' = AllExpanded(eb, h.blocks)
  /\ extraLines' = ExtraLinesOf(extraLinesSurroundingDiff)
  /\ diffArray' = d
  /\ showLines' = sl
  /\ expandedBlocks' = eb
  /\ pc' = "view"
  /\ UNCHANGED <<valueTypes, disableWordDiff, lineCompareMethod, linesOffset,
                 extraLinesSurroundingDiff, showDiffOnly>>

\* the first render, after the constructor
Mount ==
  /\ pc = "start"
  /\ RenderWith(diffArray, showLines, expandedBlocks)
  /\ lastCall' = Called("render", FALSE)

\* a click on the fold indicator of a block: onBlockClickProxy(id) calls
\* onBlockExpand(id), and setState renders again
ClickFoldIndicator ==
  /\ pc = "view"
  /\ \E r \in 1..Len(diffNodes) :
       /\ diffNodes[r].kind = "fold"
       /\ RenderWith(diffArray, showLines,
                     Append(expandedBlocks, diffNodes[r].blockNumber))
  /\ lastCall' = Called("onBlockExpand", FALSE)

\* a click on the expand-all button
ClickExpandAll ==
  /\ pc = "view"
  /\ RenderWith(diffArray, showLines,
                IF allExpanded THEN <<>> ELSE BlockIndexes(blocks))
  /\ lastCall' = Called("allExpandButton", FALSE)

\* resetCodeBlocks that sets the state and returns true whatever is expanded
ResetCodeBlocksAlways ==
  /\ pc = "view"
  /\ RenderWith(diffArray, showLines, <<>>)
  /\ lastCall' = Called("resetCodeBlocks", TRUE)

\* resetCodeBlocks, called by the parent through a ref
ResetCodeBlocks ==
  /\ pc = "view"
  /\ IF Len(expandedBlocks) > 0
     THEN /\ RenderWith(diffArray, showLines, <<>>)
          /\ lastCall' = Called("resetCodeBlocks", TRUE)
     ELSE /\ lastCall' = Called("resetCodeBlocks", FALSE)
          /\ UNCHANGED <<pc, lineVars, resultVars, extraLinesSurroundingDiff,
                         blockVars, showDiffOnly, expandedBlocks, diffNodes,
                         allExpanded>>

\* the parent passes other values: another unchanged text and other lines
\* to show; this.state is kept
ChangeProps ==
  /\ pc = "view"
  /\ \E n \in ViewRows : \E D \in SUBSET (0..(n - 1)) :
       RenderWith(UnchangedText(n), LeftTokens(D, 0), expandedBlocks)
  /\ lastCall' = Called("render", FALSE)

InitView ==
  /\ valueTypes = BothStrings
  /\ \E n \in ViewRows : \E D \in SUBSET (0..(n - 1)) :
       /\ diffArray = UnchangedText(n)
       /\ showLines = LeftTokens(D, 0)
  /\ disableWordDiff = FALSE
  /\ lineCompareMethod = "diffChars"
  /\ linesOffset = 0
  /\ extraLinesSurroundingDiff \in ViewExtraLinesProps
  /\ showDiffOnly \in BOOLEAN
  /\ NoResult

NextView ==
  \/ Mount
  \/ ClickFoldIndicator
  \/ ClickExpandAll
  \/ ResetCodeBlocks
  \/ ChangeProps

SpecView == InitView /\ [][NextView]_vars

\* the test render makes before renderDiff: a compareMethod string other
\* than diffJson wants two strings
RenderRejects ==
  /\ lineCompareMethod # "function"
  /\ lineCompareMethod # "diffJson"
  /\ (valueTypes.oldValue # "string" \/ valueTypes.newValue # "string")

\* render: it throws on the type test, or goes on to renderDiff, which calls
\* computeLineInformation with the chunks of diffLines (two strings) or of
\* diffJson (otherwise)
Render ==
  /\ pc = "start"
  /\ IF RenderRejects
     THEN /\ threw' = TRUE
          /\ UNCHANGED <<lineInformation, diffLines, chunkRows, closure>>
     ELSE \E r \in {computeLineInformation(diffArray, disableWordDiff,
                                           lineCompareMethod, linesOffset,
                                           showLines)} :
            /\ threw' = r.threw
            /\ lineInformation' = r.lineInformation
            /\ diffLines' = r.diffLines
            /\ chunkRows' = r.chunkRows
            /\ closure' = r.closure
  /\ pc' = "lines"
  /\ UNCHANGED <<lineVars, extraLinesSurroundingDiff, blockVars, viewVars>>

\* DiffViewer rendered with values of either type and every compare method
InitRender ==
  /\ valueTypes \in TypesOfValues
  /\ diffArray \in RenderDiffArrays
  /\ disableWordDiff = FALSE
  /\ lineCompareMethod \in DiffMethod \cup {"function"}
  /\ linesOffset = 0
  /\ showLines = <<>>
  /\ extraLinesSurroundingDiff = AbsentProp
  /\ showDiffOnly = TRUE
  /\ NoResult

NextRender == Render \/ CallComputeHiddenBlocks

SpecRender == InitRender /\ [][NextRender]_vars

(***************************************************************************)
(* What the claims speak of.  Chunk j is diffArray[j + 1]; its rows are    *)
(* chunkRows[j + 1], and row r of the call is lineInformation[r + 1].      *)
(***************************************************************************)
Returned1 == pc = "lines" /\ ~threw

ChunkIndexes == 0..(Len(diffArray) - 1)
Chunk(j) == diffArray[j + 1]
LinesOf(j) == constructLines(Chunk(j).value)
RowsOf(j) == chunkRows[j + 1]

RECURSIVE RowStart(_)
\* the row index of the first row of chunk j
RowStart(j) == IF j = 0 THEN 0 ELSE RowStart(j - 1) + Len(RowsOf(j - 1))

HasLeft(row) == row.left.lineNumber # undefined
HasRight(row) == row.right.lineNumber # undefined
LeftEmpty(row) == row.left = EmptyInfo
RightEmpty(row) == row.right = EmptyInfo

RECURSIVE NumbersOf(_, _)
\* the line numbers of one side ("left" or "right") of rows, in row order,
\* over the rows that carry one
NumbersOf(rows, side) ==
  IF rows = <<>> THEN <<>>
  ELSE (IF Head(rows)[side].lineNumber # undefined
        THEN <<Head(rows)[side].lineNumber>> ELSE <<>>)
       \o NumbersOf(Tail(rows), side)

\* ns is offset + 1, offset + 2, ...
CountsFrom(ns, offset) == \A i \in 1..Len(ns) : ns[i] = offset + i

\* chunk j is removed and chunk j + 1 is added
RemovedThenAdded(j) ==
  /\ j + 1 < Len(diffArray)
  /\ Chunk(j).removed
  /\ Chunk(j + 1).added

\* C1: the left line numbers of the returned rows, read in row order over
\* the rows that carry one, are linesOffset + 1, linesOffset + 2, ... with no
\* gap and no repeat, and so are the right line numbers.
C1_LineNumbersConsecutive ==
  Returned1 =>
    /\ CountsFrom(NumbersOf(lineInformation, "left"), linesOffset)
    /\ CountsFrom(NumbersOf(lineInformation, "right"), linesOffset)

\* a call with an offset whose rows hold a pure removal, a merged pair and
\* a pure addition, so that the two counters part
C1_Witness ==
  /\ Returned1
  /\ linesOffset = 1
  /\ \E r \in 1..Len(lineInformation) :
       HasLeft(lineInformation[r]) /\ RightEmpty(lineInformation[r])
  /\ \E r \in 1..Len(lineInformation) :
       /\ HasLeft(lineInformation[r]) /\ HasRight(lineInformation[r])
       /\ lineInformation[r].left.lineNumber # lineInformation[r].right.lineNumber
  /\ \E r \in 1..Len(lineInformation) :
       LeftEmpty(lineInformation[r]) /\ HasRight(lineInformation[r])

\* C2: for a removed chunk immediately followed by an added chunk, the
\* removed line at position i and the added line at position i, whenever
\* the added chunk has one, are one row: its left side is the removed line,
\* its right side that added line with a right line number; the types are
\* REMOVED and ADDED (DEFAULT on both sides for two identical lines, C4).
C2_PairedByPosition ==
  Returned1 =>
    \A j \in ChunkIndexes :
      RemovedThenAdded(j) =>
        \A i \in 1..Min(Len(LinesOf(j)), Len(LinesOf(j + 1))) :
          /\ i <= Len(RowsOf(j))
          /\ HasLeft(RowsOf(j)[i])
          /\ HasRight(RowsOf(j)[i])
          /\ <<RowsOf(j)[i].left.type, RowsOf(j)[i].right.type>>
               \in {<<REMOVED, ADDED>>, <<DEFAULT, DEFAULT>>}
          /\ RowsOf(j)[i].right.value.kind = "string"
               => RowsOf(j)[i].right.value.str = LinesOf(j + 1)[i]

\* the added line at position i (from 1) of chunk j was merged into the row
\* of a removed line by the lookahead
Merged(j, i) ==
  /\ j >= 1
  /\ RemovedThenAdded(j - 1)
  /\ i <= Len(RowsOf(j - 1))
  /\ HasRight(RowsOf(j - 1)[i])

\* the added lines of chunk j that are on the ignore list, as positions
IgnoredOf(j) ==
  {i \in 1..Len(LinesOf(j)) :
     Includes(closure.ignoreDiffIndexes, IgnoreKey(j, i - 1))}

RECURSIVE NotIgnoredLines(_, _, _)
\* the lines of chunk j from position i on that are not on the ignore list
NotIgnoredLines(j, i, ignored) ==
  IF i > Len(LinesOf(j)) THEN <<>>
  ELSE (IF i \in ignored THEN <<>> ELSE <<LinesOf(j)[i]>>)
       \o NotIgnoredLines(j, i + 1, ignored)

RECURSIVE RightTexts(_)
\* the right values of rows that are plain strings
RightTexts(rows) ==
  IF rows = <<>> THEN <<>>
  ELSE <<Head(rows).right.value.str>> \o RightTexts(Tail(rows))

\* the lines of all chunks that are not removed
RightLineCount ==
  LET Count[j \in 0..Len(diffArray)] ==
        IF j = 0 THEN 0
        ELSE Count[j - 1] + (IF Chunk(j - 1).removed THEN 0 ELSE Len(LinesOf(j - 1)))
  IN  Count[Len(diffArray)]

\* C3: every line of an added chunk is on the right side of exactly one
\* row: the lines the lookahead merged into the row of a removed line are
\* the lines on the ignore list, the call for the added chunk returns one
\* addition row for each other line, in order, and the rows with a right
\* side are as many as the lines of the unchanged and added chunks.
C3_AddedLineOnce ==
  Returned1 =>
    /\ \A j \in ChunkIndexes :
         Chunk(j).added =>
           /\ \A i \in 1..Len(LinesOf(j)) : Merged(j, i) <=> i \in IgnoredOf(j)
           /\ \A i \in IgnoredOf(j) :
                RowsOf(j - 1)[i].right.value.kind = "string"
                  => RowsOf(j - 1)[i].right.value.str = LinesOf(j)[i]
           /\ \A i \in 1..Len(RowsOf(j)) :
                /\ LeftEmpty(RowsOf(j)[i])
                /\ RowsOf(j)[i].right.type = ADDED
                /\ RowsOf(j)[i].right.value.kind = "string"
           /\ RightTexts(RowsOf(j)) = NotIgnoredLines(j, 1, IgnoredOf(j))
    /\ \A a, b \in 1..Len(closure.ignoreDiffIndexes) :
         closure.ignoreDiffIndexes[a] = closure.ignoreDiffIndexes[b] => a = b
    /\ Len(NumbersOf(lineInformation, "right")) = RightLineCount

\* an added chunk of two lines whose first line was merged into the row of
\* a removed line and whose second line is an addition row of its own
C3_Witness ==
  /\ Returned1
  /\ \E j \in ChunkIndexes :
       /\ Chunk(j).added
       /\ Len(LinesOf(j)) = 2
       /\ Merged(j, 1)
       /\ ~Merged(j, 2)
       /\ Len(RowsOf(j)) = 1

\* C4: a merged removed/added pair has type DEFAULT on both sides and is
\* left out of diffLines if and only if the raw removed line and the raw
\* added line are identical strings; otherwise the left side is REMOVED,
\* the right side ADDED and the row is in diffLines.  (Stated for calls
\* without alwaysShowLines, which can force any row into diffLines.)
C4_DefaultIffIdentical ==
  (Returned1 /\ showLines = <<>>) =>
    \A j \in ChunkIndexes :
      Chunk(j).added =>
        \A i \in 1..Len(LinesOf(j)) :
          Merged(j, i) =>
            IF LinesOf(j - 1)[i] = LinesOf(j)[i]
            THEN /\ RowsOf(j - 1)[i].left.type = DEFAULT
                 /\ RowsOf(j - 1)[i].right.type = DEFAULT
                 /\ ~Includes(diffLines, RowStart(j - 1) + i - 1)
            ELSE /\ RowsOf(j - 1)[i].left.type = REMOVED
                 /\ RowsOf(j - 1)[i].right.type = ADDED
                 /\ Includes(diffLines, RowStart(j - 1) + i - 1)

\* row i (from 1) of chunk j is a pure addition, a pure removal, or a merged
\* pair whose two lines differ
GenuineChange(j, i) ==
  \/ LeftEmpty(RowsOf(j)[i]) /\ HasRight(RowsOf(j)[i])
  \/ HasLeft(RowsOf(j)[i]) /\ RightEmpty(RowsOf(j)[i])
  \/ /\ Merged(j + 1, i)
     /\ LinesOf(j)[i] # LinesOf(j + 1)[i]

\* a token of showLines names a line number of the row
NamedByShowLines(row) ==
  \/ Includes(showLines, Token("L", row.left.lineNumber))
  \/ Includes(showLines, Token("R", row.right.lineNumber))

\* C5: a row index is in diffLines if and only if the row is a genuine
\* change or one of its line numbers matches an alwaysShowLines token, and
\* every entry of diffLines is an index into the returned rows.
C5_DiffLinesExact ==
  Returned1 =>
    /\ \A j \in ChunkIndexes :
         \A i \in 1..Len(RowsOf(j)) :
           Includes(diffLines, RowStart(j) + i - 1)
             <=> (GenuineChange(j, i) \/ NamedByShowLines(RowsOf(j)[i]))
    /\ \A k \in 1..Len(diffLines) :
         diffLines[k] >= 0 /\ diffLines[k] < Len(lineInformation)

\* C6: diffLines never contains the same row index twice.
C6_DiffLinesNoDuplicate ==
  Returned1 =>
    \A a, b \in 1..Len(diffLines) : diffLines[a] = diffLines[b] => a = b

RECURSIVE LeftLinesBefore(_)
\* the lines of the chunks before chunk j that are not added
LeftLinesBefore(j) ==
  IF j = 0 THEN 0
  ELSE LeftLinesBefore(j - 1)
       + (IF Chunk(j - 1).added THEN 0 ELSE Len(LinesOf(j - 1)))

RECURSIVE RightLinesBefore(_)
\* the lines of the chunks before chunk j that are not removed
RightLinesBefore(j) ==
  IF j = 0 THEN 0
  ELSE RightLinesBefore(j - 1)
       + (IF Chunk(j - 1).removed THEN 0 ELSE Len(LinesOf(j - 1)))

\* C11: every removed line that is the empty string is emitted with
\* left.value equal to one space, with word diff enabled or disabled and
\* paired with an added line or not, and it has the left line number of its
\* position among the lines of the old text.
C11_EmptyRemovedLineIsSpace ==
  Returned1 =>
    \A j \in ChunkIndexes :
      Chunk(j).removed =>
        \A i \in 1..Len(LinesOf(j)) :
          LinesOf(j)[i] = <<>> =>
            /\ i <= Len(RowsOf(j))
            /\ RowsOf(j)[i].left.value = StrValue(<<" ">>)
            /\ RowsOf(j)[i].left.lineNumber = linesOffset + LeftLinesBefore(j) + i

\* the sides of the returned rows
Sides == {lineInformation[r][side] : r \in 1..Len(lineInformation),
                                      side \in {"left", "right"}}

\* the added line at position i of chunk j was merged with a removed line
\* that differs from it
MergedDiffering(j, i) == Merged(j, i) /\ LinesOf(j - 1)[i] # LinesOf(j)[i]

\* C12: with disableWordDiff = true the value of every populated side of
\* every row is a plain string, never a fragment sequence: the added line
\* on the right of a merged pair and the removed line (one space if it is
\* empty) on its left, also when the two lines differ.
C12_NoFragmentsWhenDisabled ==
  (Returned1 /\ disableWordDiff) =>
    /\ \A side \in Sides :
         /\ side.value.kind # "array"
         /\ side.lineNumber # undefined => side.value.kind = "string"
    /\ \A j \in ChunkIndexes :
         Chunk(j).added =>
           \A i \in 1..Len(LinesOf(j)) :
             Merged(j, i) =>
               /\ RowsOf(j - 1)[i].right.value.str = LinesOf(j)[i]
               /\ RowsOf(j - 1)[i].left.value.str =
                    (IF LinesOf(j - 1)[i] = <<>> THEN <<" ">> ELSE LinesOf(j - 1)[i])

\* word diff disabled, a word-wise compare method, and a merged pair of two
\* lines that share a word and differ in another
C12_Witness ==
  /\ Returned1
  /\ disableWordDiff
  /\ lineCompareMethod = "diffWords"
  /\ MergedDiffering(1, 1)
  /\ LinesOf(0)[1] = <<"a", " ", "a">>
  /\ LinesOf(1)[1] = <<"a", " ", " ">>
  /\ RowsOf(0)[1].left.type = REMOVED
  /\ RowsOf(0)[1].right.type = ADDED

RECURSIVE FragmentsOf(_, _, _, _)
\* the fragments of the change objects that are not of the other kind, in
\* order: own is "removed" with type REMOVED on the left, "added" with type
\* ADDED on the right
FragmentsOf(changes, own, other, type) ==
  IF changes = <<>> THEN <<>>
  ELSE (IF Head(changes)[other] THEN <<>>
        ELSE <<Fragment(IF Head(changes)[own] THEN type ELSE DEFAULT,
                        Head(changes).value)>>)
       \o FragmentsOf(Tail(changes), own, other, type)

\* C13: with word diff enabled, a merged pair whose two lines differ has as
\* left.value the removed and unchanged chunks of the intra-line diff, in
\* order, typed REMOVED and DEFAULT, and as right.value the added and
\* unchanged chunks, typed ADDED and DEFAULT; no ADDED fragment is on the
\* left and no REMOVED one on the right; pure additions and pure removals
\* keep plain strings.
C13_WordDiffFragments ==
  (Returned1 /\ ~disableWordDiff) =>
    \A j \in ChunkIndexes :
      /\ \A i \in 1..Len(RowsOf(j)) :
           /\ RightEmpty(RowsOf(j)[i]) => RowsOf(j)[i].left.value.kind = "string"
           /\ LeftEmpty(RowsOf(j)[i]) => RowsOf(j)[i].right.value.kind = "string"
      /\ Chunk(j).added =>
           \A i \in 1..Len(LinesOf(j)) :
             MergedDiffering(j, i) =>
               /\ RowsOf(j - 1)[i].left.value =
                    ArrValue(FragmentsOf(jsDiff(lineCompareMethod, LinesOf(j - 1)[i],
                                                LinesOf(j)[i]),
                                         "removed", "added", REMOVED))
               /\ RowsOf(j - 1)[i].right.value =
                    ArrValue(FragmentsOf(jsDiff(lineCompareMethod, LinesOf(j - 1)[i],
                                                LinesOf(j)[i]),
                                         "added", "removed", ADDED))
               /\ \A k \in 1..Len(RowsOf(j - 1)[i].left.value.arr) :
                    RowsOf(j - 1)[i].left.value.arr[k].type # ADDED
               /\ \A k \in 1..Len(RowsOf(j - 1)[i].right.value.arr) :
                    RowsOf(j - 1)[i].right.value.arr[k].type # REMOVED

\* C14: a removed line is a pure removal row, with left REMOVED and the
\* next left line number and with an empty right side (no lineNumber, type
\* or value), whenever the next chunk is not an added chunk or the added
\* chunk has no line at the same position; the row's index is in diffLines.
C14_PureRemovalRow ==
  Returned1 =>
    \A j \in ChunkIndexes :
      Chunk(j).removed =>
        \A i \in 1..Len(LinesOf(j)) :
          (~RemovedThenAdded(j) \/ i > Len(LinesOf(j + 1))) =>
            /\ i <= Len(RowsOf(j))
            /\ RowsOf(j)[i].left.type = REMOVED
            /\ RowsOf(j)[i].left.lineNumber = linesOffset + LeftLinesBefore(j) + i
            /\ RowsOf(j)[i].left.value.kind = "string"
            /\ RowsOf(j)[i].right = EmptyInfo
            /\ Includes(diffLines, RowStart(j) + i - 1)

\* a removed chunk of two lines before an added chunk of one line, with an
\* offset: the second removed line has no added line at its position
C14_Witness ==
  /\ Returned1
  /\ linesOffset = 1
  /\ RemovedThenAdded(0)
  /\ Len(LinesOf(0)) = 2
  /\ Len(LinesOf(1)) = 1
  /\ HasRight(RowsOf(0)[1])
  /\ RowsOf(0)[2].right = EmptyInfo
  /\ RowsOf(0)[2].left.lineNumber = 3

\* the last element of ns, or d if ns is empty
LastOr(ns, d) == IF ns = <<>> THEN d ELSE ns[Len(ns)]

\* C15: every line of an added chunk that no lookahead consumed is a row
\* whose left side is empty and whose right side has the next right line
\* number, type ADDED and the line's text; the row's index is in diffLines,
\* and the left counter is not advanced (it ends at the number of lines of
\* the unchanged and removed chunks).
C15_AdditionRow ==
  Returned1 =>
    /\ \A j \in ChunkIndexes :
         Chunk(j).added =>
           /\ Len(RowsOf(j)) = Len(NotIgnoredLines(j, 1, IgnoredOf(j)))
           /\ \A k \in 1..Len(RowsOf(j)) :
                /\ RowsOf(j)[k].left = EmptyInfo
                /\ RowsOf(j)[k].right.type = ADDED
                /\ RowsOf(j)[k].right.value =
                     StrValue(NotIgnoredLines(j, 1, IgnoredOf(j))[k])
                /\ RowsOf(j)[k].right.lineNumber =
                     LastOr(NumbersOf(SubSeq(lineInformation, 1, RowStart(j) + k - 1),
                                      "right"),
                            linesOffset) + 1
                /\ Includes(diffLines, RowStart(j) + k - 1)
    /\ closure.leftLineNumber = linesOffset + LeftLinesBefore(Len(diffArray))

\* an added chunk of two lines after a removed chunk of one line: the
\* second added line is a row of its own
C15_Witness ==
  /\ Returned1
  /\ RemovedThenAdded(0)
  /\ Len(LinesOf(1)) = 2
  /\ IgnoredOf(1) = {1}
  /\ Len(RowsOf(1)) = 1
  /\ RowsOf(1)[1].right.lineNumber = linesOffset + 2
  /\ closure.leftLineNumber = linesOffset + 1

\* C16: every returned row has at least one of its sides populated with a
\* value.
C16_RowComplete ==
  Returned1 =>
    \A r \in 1..Len(lineInformation) :
      \/ lineInformation[r].left.value.kind # "undefined"
      \/ lineInformation[r].right.value.kind # "undefined"

\* rows of three shapes: unchanged, pure removal and pure addition
C16_Witness ==
  /\ Returned1
  /\ \E r \in 1..Len(lineInformation) :
       lineInformation[r].left.type = DEFAULT /\ lineInformation[r].right.type = DEFAULT
  /\ \E r \in 1..Len(lineInformation) :
       lineInformation[r].left.type = REMOVED /\ lineInformation[r].right = EmptyInfo
  /\ \E r \in 1..Len(lineInformation) :
       lineInformation[r].left = EmptyInfo /\ lineInformation[r].right.type = ADDED

\* C17: rendering with one value a string and the other a structured
\* object fails and produces no rows, for every compare method (each preset,
\* diffJson included, and a function of the caller); two strings or two
\* structured objects are accepted.
C17_TypeMismatchRejected ==
  pc = "lines" =>
    IF valueTypes.oldValue # valueTypes.newValue
    THEN threw /\ lineInformation = <<>> /\ diffLines = <<>>
    ELSE ~threw

\* C18: a call with a compare method string that is not a member of
\* DiffMethod fails as a whole and returns no rows and no diffLines, for
\* every input and every setting of disableWordDiff.
C18_UnknownMethodFails ==
  (pc = "lines" /\ lineCompareMethod \notin DiffMethod \cup {"function"}) =>
    threw /\ lineInformation = <<>> /\ diffLines = <<>>

\* info with k added to its line number, if it has one
ShiftInfo(info, k) ==
  IF info.lineNumber = undefined THEN info
  ELSE [info EXCEPT !.lineNumber = @ + k]

ShiftRows(rows, k) ==
  [r \in 1..Len(rows) |->
     [left |-> ShiftInfo(rows[r].left, k), right |-> ShiftInfo(rows[r].right, k)]]

\* the tokens with the line number they name lowered by k
LoweredTokens(tokens, k) ==
  [t \in 1..Len(tokens) |-> Token(tokens[t][1], tokens[t][2] - k)]

\* the call of the state made with linesOffset = 0 and the tokens given
AtOffsetZero(tokens) ==
  computeLineInformation(diffArray, disableWordDiff, lineCompareMethod, 0, tokens)

\* the call returned what zero returned, with linesOffset added to every
\* line number
ShiftedFrom(zero) ==
  /\ ~zero.threw
  /\ lineInformation = ShiftRows(zero.lineInformation, linesOffset)
  /\ diffLines = zero.diffLines

\* C19 as stated: with linesOffset = k instead of 0 and the same
\* alwaysShowLines list, every left and right line number is k higher and
\* nothing else changes: the rows, each side's type and value and diffLines
\* are the same.
C19_OffsetShiftsNumbersOnly == Returned1 => ShiftedFrom(AtOffsetZero(showLines))

\* C19 amended: with linesOffset = k instead of 0 and an alwaysShowLines
\* list whose tokens name line numbers k higher, every left and right line
\* number is k higher and nothing else changes.
C19_OffsetShiftsNumbersAndTokens ==
  (Returned1 /\ \A t \in 1..Len(showLines) : showLines[t][2] > linesOffset) =>
    ShiftedFrom(AtOffsetZero(LoweredTokens(showLines, linesOffset)))

\* a call with offset 1 in which the token L-2 forces the first row, an
\* unchanged line, into diffLines
C19_Witness ==
  /\ Returned1
  /\ linesOffset = 1
  /\ showLines = <<Token("L", 2)>>
  /\ Len(lineInformation) >= 2
  /\ lineInformation[1].left.type = DEFAULT
  /\ lineInformation[1].left.lineNumber = 2
  /\ Includes(diffLines, 0)

\* what of a side does not depend on its value
SideShape(info) == [lineNumber |-> info.lineNumber, type |-> info.type]

\* the line numbers and types of the rows of a result, and its diffLines
ShapeOf(rows, dl) ==
  [rows |-> [r \in 1..Len(rows) |->
               [left |-> SideShape(rows[r].left), right |-> SideShape(rows[r].right)]],
   diffLines |-> dl]

\* the call of the state made with the compare method m
WithMethod(m) ==
  computeLineInformation(diffArray, disableWordDiff, m, linesOffset, showLines)

SameShape(other) ==
  /\ ~other.threw
  /\ ShapeOf(other.lineInformation, other.diffLines) = ShapeOf(lineInformation, diffLines)

\* C20: for string inputs, two calls that differ only in a recognized
\* compare method return the same number of rows, the same line numbers
\* and types on every row and the same diffLines.
C20_MethodChangesFragmentsOnly ==
  (pc = "lines" /\ lineCompareMethod \in DiffMethod) =>
    /\ ~threw
    /\ \A m \in DiffMethod : SameShape(WithMethod(m))

\* a merged pair of two lines that differ, compared by line, whose
\* fragments are not those the comparison by character gives
C20_Witness ==
  /\ Returned1
  /\ ~disableWordDiff
  /\ lineCompareMethod = "diffLines"
  /\ MergedDiffering(1, 1)
  /\ RowsOf(0)[1].left.value.kind = "array"
  /\ RowsOf(0)[1].left.value # WithMethod("diffChars").lineInformation[1].left.value

\* C21: diffLines never lists a larger row index before a smaller one, for
\* the rows registered as changes and for the rows alwaysShowLines forces,
\* also those forced while a lookahead is resolved.
C21_DiffLinesAscending ==
  Returned1 =>
    \A a, b \in 1..Len(diffLines) : a < b => diffLines[a] <= diffLines[b]

\* a merged pair that the token of its right line number forces into
\* diffLines while the lookahead is resolved, after an earlier change
C21_Witness ==
  /\ Returned1
  /\ showLines = <<Token("R", 1)>>
  /\ RemovedThenAdded(0)
  /\ Len(LinesOf(0)) = 2
  /\ Merged(1, 2)
  /\ RowsOf(0)[2].right.lineNumber = 1
  /\ RightEmpty(RowsOf(0)[1])
  /\ diffLines = <<0, 1, 2>>

RECURSIVE NewLinesFrom(_)
\* the lines of the new text from chunk j on: the lines of the unchanged
\* and added chunks, in chunk order
NewLinesFrom(j) ==
  IF j >= Len(diffArray) THEN <<>>
  ELSE (IF Chunk(j).removed THEN <<>> ELSE LinesOf(j)) \o NewLinesFrom(j + 1)

\* the right value of row is the line of lines its line number names
HoldsItsLine(row, lines) ==
  /\ row.right.lineNumber - linesOffset \in 1..Len(lines)
  /\ row.right.value = StrValue(lines[row.right.lineNumber - linesOffset])

\* C28: with disableWordDiff = true, the row that carries the right line
\* number linesOffset + k holds as its right value the k-th line of the new
\* text, the k-th line of the unchanged and added chunks in chunk order.
C28_RightValuesInOrder ==
  (Returned1 /\ disableWordDiff) =>
    \A r \in 1..Len(lineInformation) :
      HasRight(lineInformation[r]) => HoldsItsLine(lineInformation[r], NewLinesFrom(0))

\* C29: every row has one of four shapes: (left DEFAULT, right DEFAULT),
\* (left REMOVED, right ADDED), (left REMOVED, right empty), (left empty,
\* right ADDED); no side has type CHANGED, the left side is never ADDED and
\* the right side never REMOVED.
C29_FourShapes ==
  Returned1 =>
    \A r \in 1..Len(lineInformation) :
      /\ <<lineInformation[r].left.type, lineInformation[r].right.type>>
           \in {<<DEFAULT, DEFAULT>>, <<REMOVED, ADDED>>,
                <<REMOVED, undefined>>, <<undefined, ADDED>>}
      /\ lineInformation[r].left.type = undefined => LeftEmpty(lineInformation[r])
      /\ lineInformation[r].right.type = undefined => RightEmpty(lineInformation[r])
      /\ lineInformation[r].left.type # undefined => HasLeft(lineInformation[r])
      /\ lineInformation[r].right.type # undefined => HasRight(lineInformation[r])

\* a removed chunk facing an added chunk whose first lines are equal and
\* whose second lines differ
C29_Witness ==
  /\ Returned1
  /\ RemovedThenAdded(0)
  /\ Len(RowsOf(0)) = 2
  /\ Len(LinesOf(1)) = 2
  /\ LinesOf(0)[1] = LinesOf(1)[1]
  /\ RowsOf(0)[1].left.type = DEFAULT /\ RowsOf(0)[1].right.type = DEFAULT
  /\ RowsOf(0)[2].left.type = REMOVED /\ RowsOf(0)[2].right.type = ADDED

(***************************************************************************)
(* The claims about computeHiddenBlocks, on what renderDiff passes it.     *)
(***************************************************************************)
Returned2 == pc = "blocks"

RowIndexes == 0..(Len(lineInformation) - 1)

\* some d in diffLines has d - extraLines <= r <= d + extraLines
Protected(r) ==
  \E k \in 1..Len(diffLines) :
    diffLines[k] - extraLines <= r /\ r <= diffLines[k] + extraLines

InBlock(r, b) == b.startLine <= r /\ r <= b.endLine

\* C7: the blocks are exactly the maximal contiguous runs of unprotected
\* rows: every unprotected row lies in exactly one block, a block holds
\* rows and only unprotected ones and cannot be extended at either end,
\* and two consecutive blocks have a protected row between them.
C7_BlocksAreMaximalRuns ==
  Returned2 =>
    /\ \A r \in RowIndexes :
         ~Protected(r) =>
           Cardinality({k \in 1..Len(blocks) : InBlock(r, blocks[k])}) = 1
    /\ \A k \in 1..Len(blocks) :
         /\ blocks[k].startLine \in RowIndexes
         /\ blocks[k].endLine \in RowIndexes
         /\ \A r \in blocks[k].startLine..blocks[k].endLine : ~Protected(r)
         /\ blocks[k].startLine = 0 \/ Protected(blocks[k].startLine - 1)
         /\ blocks[k].endLine = Len(lineInformation) - 1
              \/ Protected(blocks[k].endLine + 1)
    /\ \A k \in 1..(Len(blocks) - 1) :
         \E r \in RowIndexes :
           /\ blocks[k].endLine < r
           /\ r < blocks[k + 1].startLine
           /\ Protected(r)

\* several blocks, and a row that a diff line protects without being one
C7_Witness ==
  /\ Returned2
  /\ extraLines = 1
  /\ Len(blocks) >= 2
  /\ \E r \in RowIndexes : Protected(r) /\ ~Includes(diffLines, r)

\* C8: each block has startLine <= endLine, the blocks are listed in
\* ascending startLine order with no two ranges overlapping, and no row of
\* a block's range is within extraLines of a diffLines entry.
C8_BlocksOrderedDisjointUnprotected ==
  Returned2 =>
    /\ \A k \in 1..Len(blocks) :
         /\ blocks[k].startLine <= blocks[k].endLine
         /\ \A r \in blocks[k].startLine..blocks[k].endLine : ~Protected(r)
    /\ \A k \in 1..(Len(blocks) - 1) :
         blocks[k].endLine < blocks[k + 1].startLine

\* a block of several rows that ends where the context of a diff line
\* begins, followed by another block
C8_Witness ==
  /\ Returned2
  /\ extraLines >= 1
  /\ Len(blocks) >= 2
  /\ blocks[1].startLine < blocks[1].endLine
  /\ Protected(blocks[1].endLine + 1)
  /\ ~Includes(diffLines, blocks[1].endLine + 1)

\* C9: the keys of lineBlocks are exactly the rows inside some block's
\* range, each mapped to the index of the block that holds it; protected
\* rows have no entry.
C9_LineBlocksExact ==
  Returned2 =>
    /\ DOMAIN lineBlocks =
         {r \in RowIndexes : \E k \in 1..Len(blocks) : InBlock(r, blocks[k])}
    /\ \A r \in DOMAIN lineBlocks :
         /\ ~Protected(r)
         /\ \A k \in 1..Len(blocks) :
              InBlock(r, blocks[k]) => lineBlocks[r] = blocks[k].index

\* two blocks, the second of several rows, and a protected row
C9_Witness ==
  /\ Returned2
  /\ Len(blocks) >= 2
  /\ blocks[2].lines >= 2
  /\ \E r \in RowIndexes : r \notin DOMAIN lineBlocks
  /\ \E r \in DOMAIN lineBlocks : lineBlocks[r] = 1

\* C10: for every block, lines is endLine - startLine + 1 and index is the
\* block's 0-based position in blocks.
C10_LinesAndIndex ==
  Returned2 =>
    \A k \in 1..Len(blocks) :
      /\ blocks[k].lines = blocks[k].endLine - blocks[k].startLine + 1
      /\ blocks[k].index = k - 1

\* three blocks, one of them of several rows
C10_Witness ==
  /\ Returned2
  /\ Len(blocks) >= 3
  /\ \E k \in 1..Len(blocks) : blocks[k].lines >= 2

\* C23: the context width handed to computeHiddenBlocks is never negative:
\* a negative extraLinesSurroundingDiff yields exactly the blocks that 0
\* yields, a non-negative integer is passed through unchanged, and an
\* absent value is treated as 3.
C23_ContextWidthClamped ==
  Returned2 =>
    /\ extraLines >= 0
    /\ IF ~extraLinesSurroundingDiff.given THEN extraLines = 3
       ELSE IF extraLinesSurroundingDiff.value >= 0
       THEN extraLines = extraLinesSurroundingDiff.value
       ELSE /\ blocks = computeHiddenBlocks(lineInformation, diffLines, 0).blocks
            /\ lineBlocks = computeHiddenBlocks(lineInformation, diffLines, 0).lineBlocks

\* a negative prop on rows that a negative width would fold differently
C23_Witness ==
  /\ Returned2
  /\ extraLinesSurroundingDiff = GivenProp(-1)
  /\ Len(blocks) >= 2
  /\ computeHiddenBlocks(lineInformation, diffLines, -1).blocks # blocks

\* C30: on the rows and diffLines of computeLineInformation and with
\* extraLines >= 0, every row inside a hidden block is an unchanged row:
\* both sides are populated, of type DEFAULT and with a line number, and
\* the row is no addition, removal or modification.
C30_OnlyUnchangedRowsFolded ==
  Returned2 =>
    \A j \in ChunkIndexes :
      \A i \in 1..Len(RowsOf(j)) :
        (\E k \in 1..Len(blocks) : InBlock(RowStart(j) + i - 1, blocks[k])) =>
          /\ RowsOf(j)[i].left.type = DEFAULT
          /\ RowsOf(j)[i].right.type = DEFAULT
          /\ HasLeft(RowsOf(j)[i]) /\ HasRight(RowsOf(j)[i])
          /\ RowsOf(j)[i].left.value.kind = "string"
          /\ RowsOf(j)[i].right.value.kind = "string"
          /\ ~GenuineChange(j, i)

(***************************************************************************)
(* The claims about the view: what is rendered of each row, and the        *)
(* handlers of expandedBlocks.  Row r is rendered as diffNodes[r + 1].     *)
(***************************************************************************)
Viewed == pc = "view"

\* C24: with showDiffOnly, whatever was expanded, toggled and reset: every
\* row outside all blocks, in particular every row in diffLines, is
\* rendered; a block whose index is not in expandedBlocks renders none of
\* its rows and exactly one fold indicator, at its last row and with the
\* block's lines count; a block whose index is in expandedBlocks renders
\* all its rows and no indicator.  Without showDiffOnly every row is
\* rendered.
C24_FoldedBlocksHidden ==
  Viewed =>
    /\ Len(diffNodes) = Len(lineInformation)
    /\ \A k \in 1..Len(diffLines) : diffNodes[diffLines[k] + 1].kind = "row"
    /\ IF showDiffOnly
       THEN /\ \A r \in RowIndexes :
                 (\A k \in 1..Len(blocks) : ~InBlock(r, blocks[k]))
                   => diffNodes[r + 1] = RowNode(r)
            /\ \A k \in 1..Len(blocks) :
                 IF Includes(expandedBlocks, blocks[k].index)
                 THEN \A r \in blocks[k].startLine..blocks[k].endLine :
                        diffNodes[r + 1] = RowNode(r)
                 ELSE /\ \A r \in blocks[k].startLine..(blocks[k].endLine - 1) :
                           diffNodes[r + 1] = NullNode
                      /\ diffNodes[blocks[k].endLine + 1].kind = "fold"
                      /\ diffNodes[blocks[k].endLine + 1].num = blocks[k].lines
                      /\ diffNodes[blocks[k].endLine + 1].blockNumber = blocks[k].index
       ELSE \A r \in RowIndexes : diffNodes[r + 1] = RowNode(r)

\* two blocks of two rows around a diff line, the second expanded by a click
\* on its indicator and the first still folded
C24_Witness ==
  /\ Viewed
  /\ showDiffOnly
  /\ lastCall.name = "onBlockExpand"
  /\ Len(blocks) = 2
  /\ expandedBlocks = <<1>>
  /\ blocks[1].lines = 2
  /\ diffNodes[1] = NullNode
  /\ diffNodes[2].kind = "fold"
  /\ diffNodes[Len(diffNodes)].kind = "row"

\* C25: whatever was expanded, toggled, reset and passed as props, the
\* expand-all button takes the view as fully expanded only when the index
\* of every block now computed is in expandedBlocks.
C25_AllExpandedMeansAll ==
  Viewed =>
    (allExpanded => \A k \in 1..Len(blocks) : Includes(expandedBlocks, blocks[k].index))

\* C26: resetCodeBlocks empties expandedBlocks and returns true when an
\* index is expanded; when none is, it returns false and leaves the state
\* and what is rendered unchanged.  onBlockExpand(id) appends the id of the
\* indicator clicked and keeps every index expanded before.
C26_ResetAndExpand ==
  [][/\ (pc = "view" /\ lastCall'.name = "resetCodeBlocks") =>
          IF Len(expandedBlocks) > 0
          THEN expandedBlocks' = <<>> /\ lastCall'.returned = TRUE
          ELSE /\ lastCall'.returned = FALSE
               /\ UNCHANGED <<expandedBlocks, diffNodes, allExpanded, blocks,
                              lineBlocks, lineInformation, diffLines>>
     /\ (pc = "view" /\ lastCall'.name = "onBlockExpand") =>
          \E r \in 1..Len(diffNodes) :
            /\ diffNodes[r].kind = "fold"
            /\ expandedBlocks' = Append(expandedBlocks, diffNodes[r].blockNumber)]_vars

\* resetCodeBlocks has returned true on a view of several blocks
C26_Witness ==
  /\ Viewed
  /\ lastCall = Called("resetCodeBlocks", TRUE)
  /\ expandedBlocks = <<>>
  /\ Len(blocks) >= 2
  /\ showDiffOnly
  /\ \E r \in 1..Len(diffNodes) : diffNodes[r].kind = "fold"

\* C27: the left and right line numbers handed to the fold indicator of a
\* folded block are the left and right line numbers of the first row after
\* the block.
C27_IndicatorNumbersAfterBlock ==
  Viewed =>
    \A r \in 1..Len(diffNodes) :
      (diffNodes[r].kind = "fold" /\ r < Len(lineInformation)) =>
        /\ diffNodes[r].leftBlockLineNumber = lineInformation[r + 1].left.lineNumber
        /\ diffNodes[r].rightBlockLineNumber = lineInformation[r + 1].right.lineNumber

====
